---- MODULE Spec2Model ----
(***************************************************************************)
(* Model of app.py of blur-detection: the source resolver (is_url,        *)
(* is_pdf), the fetcher (download_file, download_image), the decoder      *)
(* (process_pdf), the blur scorer (detect_blur) and the orchestrator      *)
(* (process_file, __main__).                                              *)
(*                                                                         *)
(* Strings are sequences of one-character strings, so that the parsing    *)
(* done by urlparse, str.lower and str.endswith is computed.  Messages    *)
(* are sequences of strings whose concatenation is the text.  A blur      *)
(* score is the exact rational [num, den].                                *)
(***************************************************************************)
EXTENDS Integers, Sequences, FiniteSets, TLC

VARIABLES file_path, threshold, pc, response, dl, exc, images, i, image,
          results, out, err, calls

vars == <<file_path, threshold, pc, response, dl, exc, images, i, image,
          results, out, err, calls>>

\* ------------------------------------------------------------------ bounds
MaxPages == 3
MaxDim == 3

\* --------------------------------------------------------------- constants
HTTP_OK == 200
DefaultThreshold == 100

\* ------------------------------------------------------------------ strings
Uppers == {"P", "D", "F", "H", "T", "C"}

LowerChar(c) ==
  CASE c = "P" -> "p"
    [] c = "D" -> "d"
    [] c = "F" -> "f"
    [] c = "H" -> "h"
    [] c = "T" -> "t"
    [] c = "C" -> "c"
    [] OTHER -> c

lower(s) == [k \in 1..Len(s) |-> LowerChar(s[k])]

endswith(s, suffix) ==
  /\ Len(s) >= Len(suffix)
  /\ SubSeq(s, Len(s) - Len(suffix) + 1, Len(s)) = suffix

Letters == {"a", "c", "d", "f", "g", "h", "j", "p", "q", "t", "x"} \cup Uppers

scheme_chars == Letters \cup {"0", "1", "+", "-", "."}

\* str.find: the first position of character c in s, 0 when absent (1-based).
find(s, c) ==
  IF \E k \in 1..Len(s) : s[k] = c
  THEN CHOOSE k \in 1..Len(s) : s[k] = c /\ \A m \in 1..(k - 1) : s[m] # c
  ELSE 0

Drop(s, n) == SubSeq(s, n + 1, Len(s))

\* _splitnetloc(url, 2): the netloc runs from the third character to the
\* first of "/", "?", "#", or to the end.
NetlocEnd(url) ==
  LET delims == {k \in 3..Len(url) : url[k] \in {"/", "?", "#"}}
  IN IF delims = {} THEN Len(url)
     ELSE (CHOOSE k \in delims : \A m \in delims : k <= m) - 1

\* urllib.parse.urlparse, restricted to the scheme and netloc components:
\* [raises |-> TRUE] stands for ValueError("Invalid IPv6 URL").
urlparse(path) ==
  LET colon == find(path, ":")
      hasScheme == /\ colon > 1
                   /\ path[1] \in Letters
                   /\ \A k \in 1..(colon - 1) : path[k] \in scheme_chars
      scheme == IF hasScheme THEN lower(SubSeq(path, 1, colon - 1)) ELSE <<>>
      url == IF hasScheme THEN Drop(path, colon) ELSE path
      hasNetloc == Len(url) >= 2 /\ url[1] = "/" /\ url[2] = "/"
      netloc == IF hasNetloc THEN SubSeq(url, 3, NetlocEnd(url)) ELSE <<>>
      open == \E k \in 1..Len(netloc) : netloc[k] = "["
      close == \E k \in 1..Len(netloc) : netloc[k] = "]"
  IN IF hasNetloc /\ (open # close)
     THEN [raises |-> TRUE, scheme |-> scheme, netloc |-> netloc]
     ELSE [raises |-> FALSE, scheme |-> scheme, netloc |-> netloc]

is_url(path) ==
  LET result == urlparse(path)
  IN IF result.raises THEN FALSE
     ELSE result.scheme # <<>> /\ result.netloc # <<>>

\* The suffix test without lower().
is_pdf_caseSensitive(path) == endswith(path, <<".", "p", "d", "f">>)

is_pdf(path) == endswith(lower(path), <<".", "p", "d", "f">>)

\* ------------------------------------------------------------------- inputs
SchemeParts == { <<>>, <<"h", "t", "t", "p", ":">>, <<"H", "T", "T", "P", ":">>,
                 <<"c", ":">>, <<"1", "h", ":">> }
HostParts == { <<>>, <<"/", "/", "h">>, <<"/", "/">>, <<"/", "/", "[", "h">> }
PathParts == { <<"/", "a">>, <<"a">> }
ExtParts == { <<>>, <<".", "p", "d", "f">>, <<".", "P", "D", "F">>,
              <<".", "p", "d", "f", "x">>, <<".", "j", "p", "g">> }
TailParts == { <<>>, <<"?", "q">> }

Paths == { s \o h \o p \o e \o t :
             s \in SchemeParts, h \in HostParts, p \in PathParts,
             e \in ExtParts, t \in TailParts }

Thresholds == {50, DefaultThreshold, 200}

\* ------------------------------------------------------------ pixel buffers
\* A buffer is [kind, mode, h, w, px]: kind "ndarray" is what cv2 decodes
\* (3 channels, BGR), kind "PIL" is a page rendered by pdf2image; px maps
\* <<row, column>> to the pixel, a triple of channels or, in mode "L", one
\* intensity.
NoneVal == [kind |-> "None"]
Unset == [kind |-> "unset"]

Pattern(h, w, bg, fg) ==
  [p \in (1..h) \X (1..w) |-> IF (p[1] + p[2]) % 2 = 0 THEN bg ELSE fg]

Buffer(kind, mode, h, w, bg, fg) ==
  [kind |-> kind, mode |-> mode, h |-> h, w |-> w, px |-> Pattern(h, w, bg, fg)]

White == <<255, 255, 255>>
Black == <<0, 0, 0>>
Grey5 == <<5, 5, 5>>
Blue == <<255, 0, 0>>
Teal == <<10, 200, 77>>

Palette == {Black, Grey5, White, Blue, Teal}

\* np.array(image) of a PIL image: the same pixels as an array; of None, a
\* 0-dimensional object array.
np_array(img) ==
  IF img.kind = "None"
  THEN [kind |-> "ndarray", mode |-> "object", h |-> 0, w |-> 0, px |-> <<>>]
  ELSE [kind |-> "ndarray", mode |-> img.mode, h |-> img.h, w |-> img.w, px |-> img.px]

Channels(arr) ==
  IF arr.mode = "object" THEN 0
  ELSE IF arr.mode \in {"L", "GRAY"} THEN 1
  ELSE 3

\* cv2.cvtColor(src, cv2.COLOR_RGB2BGR) on a 3-channel array.
cvtColor_RGB2BGR(arr) ==
  [arr EXCEPT !.mode = "BGR",
              !.px = [p \in DOMAIN arr.px |-> <<arr.px[p][3], arr.px[p][2], arr.px[p][1]>>]]

\* cv2.cvtColor(src, cv2.COLOR_BGR2GRAY) on 8-bit data: fixed point, 15 bits.
GrayOf(bgr) ==
  (bgr[1] * 3735 + bgr[2] * 19235 + bgr[3] * 9798 + 16384) \div 32768

cvtColor_BGR2GRAY(arr) ==
  [arr EXCEPT !.mode = "GRAY", !.px = [p \in DOMAIN arr.px |-> GrayOf(arr.px[p])]]

\* cv2.borderInterpolate with BORDER_REFLECT_101 (the default border of
\* cv2.Laplacian), 1-based.
borderInterpolate(q, len) ==
  IF len = 1 THEN 1
  ELSE IF q < 1 THEN 2 - q
  ELSE IF q > len THEN 2 * len - q
  ELSE q

\* A border of zeros (BORDER_CONSTANT) instead of the reflected border.
At_constant(gray, y, x) ==
  IF y \in 1..gray.h /\ x \in 1..gray.w THEN gray.px[<<y, x>>] ELSE 0

At(gray, y, x) ==
  gray.px[<<borderInterpolate(y, gray.h), borderInterpolate(x, gray.w)>>]

\* cv2.Laplacian(gray, cv2.CV_64F) with ksize = 1: the kernel
\* [0 1 0; 1 -4 1; 0 1 0], no scaling.
Laplacian(gray) ==
  [p \in DOMAIN gray.px |->
     At(gray, p[1] - 1, p[2]) + At(gray, p[1] + 1, p[2])
     + At(gray, p[1], p[2] - 1) + At(gray, p[1], p[2] + 1)
     - 4 * gray.px[p]]

SumTo(f, n) ==
  LET S[k \in 0..n] == IF k = 0 THEN 0 ELSE S[k - 1] + f[k]
  IN S[n]

Flat(f, h, w) ==
  [k \in 1..(h * w) |-> f[<<((k - 1) \div w) + 1, ((k - 1) % w) + 1>>]]

\* np.var: the population variance, as the exact rational num / den.
np_var(f, h, w) ==
  LET vals == Flat(f, h, w)
      n == h * w
      s1 == SumTo(vals, n)
      s2 == SumTo([k \in 1..n |-> vals[k] * vals[k]], n)
  IN [num |-> n * s2 - s1 * s1, den |-> n * n]

\* blur_score <= threshold instead of blur_score < threshold.
ScoreLess_orEqual(score, thr) == score.num <= thr * score.den

\* blur_score < threshold
ScoreLess(score, thr) == score.num < thr * score.den

CvError ==
  [type |-> "cv2.error", msg |-> <<"Invalid number of channels in input image">>]

detect_blur(img, thr) ==
  LET arr == IF img.kind # "ndarray" THEN np_array(img) ELSE img
  IN IF Channels(arr) # 3
     THEN [ok |-> FALSE, exc |-> CvError]
     ELSE LET bgr == IF img.kind # "ndarray" THEN cvtColor_RGB2BGR(arr) ELSE arr
              gray == cvtColor_BGR2GRAY(bgr)
              laplacian == Laplacian(gray)
              blur_score == np_var(laplacian, gray.h, gray.w)
              is_blurry == ScoreLess(blur_score, thr)
          IN [ok |-> TRUE, is_blurry |-> is_blurry, blur_score |-> blur_score]

\* f"{score:.2f}": the score in hundredths, rounded half to even.
Format2(score) ==
  LET q == (score.num * 100) \div score.den
      r == (score.num * 100) % score.den
  IN IF 2 * r > score.den THEN q + 1
     ELSE IF 2 * r = score.den THEN q + (q % 2)
     ELSE q

\* -------------------------------------------------------------- environment
Statuses == {HTTP_OK, 204, 404, 500}
Contents == {"contentA", "contentB"}

NoResponse == [status_code |-> 0, content |-> "none"]
Responses == [status_code : Statuses, content : Contents]

NoErr == [type |-> "none", msg |-> <<>>]

ConnectionError ==
  [type |-> "ConnectionError", msg |-> <<"Max retries exceeded with url">>]

PdfFailures ==
  { [type |-> "PDFPageCountError", msg |-> <<"Unable to get page count.">>],
    [type |-> "PDFSyntaxError", msg |-> <<"Syntax Error: Couldn't read xref table">>] }

PageCatalogue ==
  { Buffer("PIL", "RGB", 1, 1, White, White),
    Buffer("PIL", "RGB", 1, 2, Black, Grey5),
    Buffer("PIL", "L", 1, 1, 255, 255) }

PageSeqs == UNION { [1..n -> PageCatalogue] : n \in 0..MaxPages }

ImageCatalogue ==
  { Buffer("ndarray", "BGR", 1, 1, White, White),
    Buffer("ndarray", "BGR", 1, 2, Black, Grey5),
    Buffer("ndarray", "BGR", 2, 2, Blue, White) }

\* detect_blur over the buffers and thresholds that process_file meets,
\* tabulated once.
Scored ==
  [b \in PageCatalogue \cup ImageCatalogue \cup {NoneVal} |->
     [t \in Thresholds |-> detect_blur(b, t)]]

BlurInputs ==
  { Buffer(k[1], k[2], h, w, bg, fg) :
      k \in {<<"ndarray", "BGR">>, <<"PIL", "RGB">>},
      h \in 1..MaxDim, w \in 1..MaxDim, bg \in Palette, fg \in Palette }

BlurThresholds == {0, 1, DefaultThreshold}

\* ------------------------------------------------------------------ fetcher
ValueError(msg) == [type |-> "ValueError", msg |-> msg]

NoResult == [state |-> "none", value |-> "none", exc |-> NoErr]
Returned(v) == [state |-> "returned", value |-> v, exc |-> NoErr]
Raised(e) == [state |-> "raised", value |-> "none", exc |-> e]

\* Any 2xx status accepted instead of 200 alone.
StatusOk_2xx(status_code) == status_code \in 200..299

\* response.status_code != 200 is the failure test of both downloaders.
StatusOk(status_code) == status_code = HTTP_OK

\* download_file(url), given what requests.get(url) produced (NoResponse:
\* requests.get itself raised).
download_file(url, resp) ==
  IF resp = NoResponse THEN Raised(ConnectionError)
  ELSE IF ~StatusOk(resp.status_code)
       THEN Raised(ValueError(<<"Failed to download file from URL: ">> \o url))
       ELSE Returned(resp.content)

\* download_image(url), given the response and what cv2.imdecode makes of
\* its content.
download_image(url, resp, decoded) ==
  IF resp = NoResponse THEN Raised(ConnectionError)
  ELSE IF ~StatusOk(resp.status_code)
       THEN Raised(ValueError(<<"Failed to download image from URL: ">> \o url))
       ELSE IF decoded = NoneVal
            THEN Raised(ValueError(<<"Failed to decode image from URL: ">> \o url))
            ELSE Returned(decoded)

\* The wrapper without the original error's message.
WrapPdfError_noCause(e) == ValueError(<<"Error processing PDF">>)

\* except Exception as e: raise ValueError(f"Error processing PDF: {str(e)}")
WrapPdfError(e) == ValueError(<<"Error processing PDF: ">> \o e.msg)

\* ------------------------------------------------------------------- output
ProcessingLine(path) == [kind |-> "Processing", path |-> path]
\* Pages numbered from 0, as enumerate counts them.
PageNumber_fromZero(idx) == idx

PageNumber(idx) == idx + 1
PageLine(n) == [kind |-> "Page", n |-> n]
StatusOf(is_blurry) == IF is_blurry THEN "BLURRY" ELSE "CLEAR"
StatusLine(status) == [kind |-> "Status", status |-> status]
ScoreLine(score) == [kind |-> "Score", score |-> Format2(score)]
SepLine == [kind |-> "Sep"]
ImageLine(path) == [kind |-> "Image", path |-> path]
ErrorLine(msg) == [kind |-> "Error", msg |-> msg]

PageBlock(idx, r) ==
  << PageLine(PageNumber(idx)), StatusLine(StatusOf(r.is_blurry)),
     ScoreLine(r.blur_score), SepLine >>

ImageBlock(path, r) ==
  << ImageLine(path), StatusLine(StatusOf(r.is_blurry)), ScoreLine(r.blur_score) >>

\* ------------------------------------------------------------------ actions
Init ==
  /\ file_path \in Paths
  /\ threshold \in Thresholds
  /\ pc = "main"
  /\ response = NoResponse
  /\ dl = NoResult
  /\ exc = NoErr
  /\ images = <<>>
  /\ i = 0
  /\ image = Unset
  /\ results = <<>>
  /\ out = <<>>
  /\ err = NoErr
  /\ calls = <<>>

\* __main__ calls process_file; the input is a PDF by its name.
ProcessFilePdf ==
  /\ pc = "main"
  /\ is_pdf(file_path)
  /\ out' = Append(out, ProcessingLine(file_path))
  /\ calls' = Append(calls, "process_pdf")
  /\ pc' = "process_pdf"
  /\ UNCHANGED <<file_path, threshold, response, dl, exc, images, i, image,
                 results, err>>

\* __main__ calls process_file; the input is handled as a regular image.
ProcessFileImage ==
  /\ pc = "main"
  /\ ~is_pdf(file_path)
  /\ pc' = IF is_url(file_path) THEN "download_image" ELSE "imread"
  /\ UNCHANGED <<file_path, threshold, response, dl, exc, images, i, image,
                 results, out, err, calls>>

\* process_pdf, URL branch: pdf_content = download_file(pdf_path)
DownloadFile ==
  /\ pc = "process_pdf"
  /\ is_url(file_path)
  /\ \E resp \in Responses \cup {NoResponse} :
       /\ response' = resp
       /\ dl' = download_file(file_path, resp)
  /\ calls' = calls \o <<"download_file", "requests.get">>
  /\ exc' = dl'.exc
  /\ pc' = IF dl'.state = "returned" THEN "convert_from_bytes" ELSE "pdf_except"
  /\ UNCHANGED <<file_path, threshold, images, i, image, results, out, err>>

\* What the PDF renderer does with its input: a page sequence or a failure.
Render(next_calls) ==
  /\ calls' = next_calls
  /\ \/ \E pages \in PageSeqs :
          /\ images' = pages
          /\ exc' = exc
          /\ pc' = "pdf_loop"
     \/ \E e \in PdfFailures :
          /\ images' = images
          /\ exc' = e
          /\ pc' = "pdf_except"
  /\ UNCHANGED <<file_path, threshold, response, dl, i, image, results, out, err>>

\* process_pdf, URL branch: images = convert_from_bytes(pdf_content)
ConvertFromBytes ==
  /\ pc = "convert_from_bytes"
  /\ Render(Append(calls, "convert_from_bytes"))

\* process_pdf, local branch: images = convert_from_path(pdf_path)
ConvertFromPath ==
  /\ pc = "process_pdf"
  /\ ~is_url(file_path)
  /\ Render(Append(calls, "convert_from_path"))

\* process_pdf: except Exception as e: raise ValueError(...)
PdfExcept ==
  /\ pc = "pdf_except"
  /\ err' = WrapPdfError(exc)
  /\ pc' = "raised"
  /\ UNCHANGED <<file_path, threshold, response, dl, exc, images, i, image,
                 results, out, calls>>

\* One iteration of: for i, image in enumerate(images)
ScorePage ==
  /\ pc = "pdf_loop"
  /\ i < Len(images)
  /\ LET r == Scored[images[i + 1]][threshold]
     IN /\ results' = Append(results, r)
        /\ IF r.ok
           THEN /\ out' = out \o PageBlock(i, r)
                /\ i' = i + 1
                /\ UNCHANGED <<pc, err>>
           ELSE /\ err' = r.exc
                /\ pc' = "raised"
                /\ UNCHANGED <<out, i>>
  /\ image' = images[i + 1]
  /\ calls' = Append(calls, "detect_blur")
  /\ UNCHANGED <<file_path, threshold, response, dl, exc, images>>

\* The loop over the pages is exhausted: process_file returns.
PdfLoopEnd ==
  /\ pc = "pdf_loop"
  /\ i = Len(images)
  /\ pc' = "returned"
  /\ UNCHANGED <<file_path, threshold, response, dl, exc, images, i, image,
                 results, out, err, calls>>

\* image = download_image(file_path)
DownloadImage ==
  /\ pc = "download_image"
  /\ \E resp \in Responses \cup {NoResponse}, decoded \in ImageCatalogue \cup {NoneVal} :
       /\ response' = resp
       /\ dl' = download_image(file_path, resp, decoded)
       /\ calls' = calls \o (IF resp # NoResponse /\ StatusOk(resp.status_code)
                             THEN <<"download_image", "requests.get", "cv2.imdecode">>
                             ELSE <<"download_image", "requests.get">>)
  /\ IF dl'.state = "returned"
     THEN /\ image' = dl'.value
          /\ pc' = "check_image"
          /\ err' = err
     ELSE /\ err' = dl'.exc
          /\ pc' = "raised"
          /\ image' = image
  /\ UNCHANGED <<file_path, threshold, exc, images, i, results, out>>

\* image = cv2.imread(file_path): an array, or None when the file is missing
\* or is not a readable image.
Imread ==
  /\ pc = "imread"
  /\ \E decoded \in ImageCatalogue \cup {NoneVal} : image' = decoded
  /\ calls' = Append(calls, "cv2.imread")
  /\ pc' = "check_image"
  /\ UNCHANGED <<file_path, threshold, response, dl, exc, images, i, results,
                 out, err>>

\* process_file without its test for None.
CheckImage_noTest ==
  /\ pc = "check_image"
  /\ pc' = "score_image"
  /\ UNCHANGED <<file_path, threshold, response, dl, exc, images, i, image,
                 results, out, err, calls>>

\* if image is None: raise ValueError(...)
CheckImage ==
  /\ pc = "check_image"
  /\ IF image = NoneVal
     THEN /\ err' = ValueError(<<"Could not read image at ">> \o file_path)
          /\ pc' = "raised"
     ELSE /\ err' = err
          /\ pc' = "score_image"
  /\ UNCHANGED <<file_path, threshold, response, dl, exc, images, i, image,
                 results, out, calls>>

\* The image branch scores once and prints its block.
ScoreImage ==
  /\ pc = "score_image"
  /\ LET r == Scored[image][threshold]
     IN /\ results' = Append(results, r)
        /\ IF r.ok
           THEN /\ out' = out \o ImageBlock(file_path, r)
                /\ pc' = "returned"
                /\ err' = err
           ELSE /\ err' = r.exc
                /\ pc' = "raised"
                /\ out' = out
  /\ calls' = Append(calls, "detect_blur")
  /\ UNCHANGED <<file_path, threshold, response, dl, exc, images, i, image>>

\* The handler swallowing the error without printing it.
MainExcept_silent ==
  /\ pc = "raised"
  /\ pc' = "done"
  /\ UNCHANGED <<file_path, threshold, response, dl, exc, images, i, image,
                 results, out, err, calls>>

\* __main__: except Exception as e: print(f"Error: {str(e)}")
MainExcept ==
  /\ pc = "raised"
  /\ out' = Append(out, ErrorLine(err.msg))
  /\ pc' = "done"
  /\ UNCHANGED <<file_path, threshold, response, dl, exc, images, i, image,
                 results, err, calls>>

\* __main__: process_file returned normally.
MainReturn ==
  /\ pc = "returned"
  /\ pc' = "done"
  /\ UNCHANGED <<file_path, threshold, response, dl, exc, images, i, image,
                 results, out, err, calls>>

Next ==
  \/ ProcessFilePdf
  \/ ProcessFileImage
  \/ DownloadFile
  \/ ConvertFromBytes
  \/ ConvertFromPath
  \/ PdfExcept
  \/ ScorePage
  \/ PdfLoopEnd
  \/ DownloadImage
  \/ Imread
  \/ CheckImage
  \/ ScoreImage
  \/ MainExcept
  \/ MainReturn

Spec == Init /\ [][Next]_vars

LiveSpec == Spec /\ WF_vars(Next)

\* ------------------------------------------ the scorer as a pure function
InitBlur ==
  /\ file_path = <<>>
  /\ threshold \in BlurThresholds
  /\ pc = "blur"
  /\ response = NoResponse
  /\ dl = NoResult
  /\ exc = NoErr
  /\ images = <<>>
  /\ i = 0
  /\ image \in BlurInputs
  /\ results = <<>>
  /\ out = <<>>
  /\ err = NoErr
  /\ calls = <<>>

DetectBlur ==
  /\ pc = "blur"
  /\ results' = <<detect_blur(image, threshold)>>
  /\ pc' = "blur_done"
  /\ UNCHANGED <<file_path, threshold, response, dl, exc, images, i, image,
                 out, err, calls>>

NextBlur == DetectBlur

SpecBlur == InitBlur /\ [][NextBlur]_vars

\* ------------------------------------------------------------ properties
LinesOfKind(kinds) == {k \in 1..Len(out) : out[k].kind \in kinds}

Count(name) == Cardinality({k \in 1..Len(calls) : calls[k] = name})

Called(name) == Count(name) > 0

\* sub occurs in msg as a contiguous run.
Contains(msg, sub) ==
  \E k \in 0..(Len(msg) - Len(sub)) : SubSeq(msg, k + 1, k + Len(sub)) = sub

\* The path ends with ".pdf" in any mix of cases.
SuffixPdf(path) ==
  /\ Len(path) >= 4
  /\ path[Len(path) - 3] = "."
  /\ path[Len(path) - 2] \in {"p", "P"}
  /\ path[Len(path) - 1] \in {"d", "D"}
  /\ path[Len(path)] \in {"f", "F"}

\* The path starts with a scheme, a colon, "//" and a non-empty host.
SchemeAndHost(path) ==
  \E c \in 2..Len(path) :
    /\ path[c] = ":"
    /\ path[1] \in Letters
    /\ \A k \in 1..(c - 1) : path[k] \in scheme_chars
    /\ Len(path) >= c + 3
    /\ path[c + 1] = "/"
    /\ path[c + 2] = "/"
    /\ path[c + 3] \notin {"/", "?", "#"}

PdfRun == SuffixPdf(file_path)

\* C1: for a PDF whose rendering yields N pages and where no step fails, the
\* output is the header followed by exactly one block per page scored so
\* far, the k-th labelled "Page k" and carrying the status and the score of
\* the k-th page's buffer; when process_file has returned, all N pages have
\* their block.
C1_PageBlocksInOrder ==
  (PdfRun /\ pc \in {"pdf_loop", "returned", "done"} /\ err = NoErr) =>
    /\ Len(out) = 1 + 4 * i
    /\ pc \in {"returned", "done"} => i = Len(images)
    /\ Cardinality(LinesOfKind({"Page"})) = i
    /\ \A k \in 1..i :
         LET r == detect_blur(images[k], threshold)
         IN /\ r.ok
            /\ out[4 * k - 2] = [kind |-> "Page", n |-> k]
            /\ out[4 * k - 1] =
                 [kind |-> "Status",
                  status |-> IF r.is_blurry THEN "BLURRY" ELSE "CLEAR"]
            /\ out[4 * k] = [kind |-> "Score", score |-> Format2(r.blur_score)]
            /\ out[4 * k + 1] = [kind |-> "Sep"]

C1_Witness ==
  /\ PdfRun /\ pc = "done" /\ err = NoErr
  /\ Len(images) = 3
  /\ images[1] # images[2]
  /\ out[10] = [kind |-> "Page", n |-> 3]

\* The buffer the k-th call of detect_blur was given.
ScoredBuffer(k) == IF PdfRun THEN images[k] ELSE image

\* The status line printed for the k-th call of detect_blur.
StatusLineOf(k) == IF PdfRun THEN out[4 * k - 1] ELSE out[2]

\* C2: is_blurry holds exactly when blur_score < threshold (a score equal to
\* the threshold is not blurry), the score is the same under every
\* threshold, the printed status is "BLURRY" exactly when is_blurry, and a
\* score strictly between two thresholds is clear under the lower and blurry
\* under the higher.
C2_BlurryIffBelowThreshold ==
  \A k \in 1..Len(results) :
    results[k].ok =>
      LET score == results[k].blur_score
          buf == ScoredBuffer(k)
      IN /\ results[k].is_blurry <=> (score.num < threshold * score.den)
         /\ \A t \in Thresholds : detect_blur(buf, t).blur_score = score
         /\ \A t1, t2 \in Thresholds :
              (t1 * score.den < score.num /\ score.num < t2 * score.den) =>
                /\ ~detect_blur(buf, t1).is_blurry
                /\ detect_blur(buf, t2).is_blurry
         /\ StatusLineOf(k).kind = "Status"
         /\ (StatusLineOf(k).status = "BLURRY") <=> results[k].is_blurry
         /\ (StatusLineOf(k).status = "CLEAR") <=> ~results[k].is_blurry

C2_Witness ==
  /\ pc = "done"
  /\ \E k \in 1..Len(results) :
       /\ results[k].ok
       /\ results[k].blur_score.num = threshold * results[k].blur_score.den
       /\ StatusLineOf(k).status = "CLEAR"

\* C3: when a PDF run has failed, no Page, Status or Blur Score line has
\* been printed.
C3_NoPartialPages ==
  (PdfRun /\ err # NoErr) => LinesOfKind({"Page", "Status", "Score"}) = {}

\* C4: once a URL has been answered with status 404, no Status or Blur Score
\* line is ever printed, the run does not go on to decode or score, and it
\* ends in an error, printed last, whose message contains the URL.
C4_NotFoundReportsUrl ==
  response.status_code = 404 =>
    /\ is_url(file_path)
    /\ LinesOfKind({"Status", "Score"}) = {}
    /\ pc \in {"pdf_except", "raised", "done"}
    /\ pc \in {"raised", "done"} =>
         /\ err # NoErr
         /\ Contains(err.msg, file_path)
    /\ pc = "done" =>
         /\ out[Len(out)].kind = "Error"
         /\ Contains(out[Len(out)].msg, file_path)

C4_Witness ==
  /\ response.status_code = 404
  /\ PdfRun
  /\ pc = "done"
  /\ Contains(out[Len(out)].msg, file_path)

\* process_pdf is over: it returned the pages or raised.
ProcessPdfOver ==
  /\ PdfRun
  /\ pc \in {"pdf_loop", "returned", "raised", "done"}

\* C5, as amended: process_pdf either returns the rendered pages or raises
\* a ValueError whose message is "Error processing PDF: " followed by the
\* original error's message; the original exception itself never escapes.
C5_WrappedAsValueError ==
  ProcessPdfOver =>
    \/ /\ exc = NoErr
       /\ Called("convert_from_bytes") \/ Called("convert_from_path")
    \/ /\ exc # NoErr
       /\ pc \in {"raised", "done"}
       /\ err.type = "ValueError"
       /\ err.msg = <<"Error processing PDF: ">> \o exc.msg
       /\ err # exc

C5_Witness ==
  /\ ProcessPdfOver
  /\ exc.type = "ValueError"
  /\ err.type = "ValueError"
  /\ err.msg = <<"Error processing PDF: ">> \o exc.msg

\* C5, as stated: in addition, the type of the original exception is never
\* the type of the error that escapes.
C5_OriginalTypeNeverEscapes ==
  (ProcessPdfOver /\ exc # NoErr) =>
    /\ err.type = "ValueError"
    /\ err.msg = <<"Error processing PDF: ">> \o exc.msg
    /\ err.type # exc.type

\* download_file has been called and requests.get gave a response.
DownloadFileAnswered == Called("download_file") /\ response # NoResponse

\* C6, as amended: download_file issues one GET and never a second; it
\* raises a ValueError carrying the URL when the status is not 200 and
\* returns the response body when the status is 200.
C6_FailsUnlessStatus200 ==
  /\ Count("requests.get") <= 1
  /\ DownloadFileAnswered =>
       /\ Count("requests.get") = 1
       /\ response.status_code # 200 =>
            /\ dl.state = "raised"
            /\ dl.exc.type = "ValueError"
            /\ Contains(dl.exc.msg, file_path)
       /\ response.status_code = 200 =>
            /\ dl.state = "returned"
            /\ dl.value = response.content

C6_Witness ==
  /\ DownloadFileAnswered
  /\ response.status_code = 204
  /\ dl.state = "raised"
  /\ Contains(dl.exc.msg, file_path)

\* C6, as stated: download_file fails on every non-2xx status and returns
\* the response body on every 2xx status.
C6_FailsUnlessStatus2xx ==
  DownloadFileAnswered =>
    /\ response.status_code \notin 200..299 =>
         /\ dl.state = "raised"
         /\ Contains(dl.exc.msg, file_path)
    /\ response.status_code \in 200..299 =>
         /\ dl.state = "returned"
         /\ dl.value = response.content

\* The buffer obtained for an image input is None: cv2.imread returned None,
\* or cv2.imdecode did inside download_image.
NullBuffer ==
  \/ image = NoneVal /\ pc # "check_image"
  \/ Called("cv2.imdecode") /\ dl.state = "raised"

\* C7: a non-PDF input is scored at most once and never prints a page
\* line; with a None buffer the run fails with a ValueError, is not scored
\* and prints no Image, Status or Blur Score line; with a buffer it is
\* scored exactly once and prints exactly the three lines Image, Status,
\* Blur Score.
C7_ImageScoredAtMostOnce ==
  ~PdfRun =>
    /\ Count("detect_blur") <= 1
    /\ LinesOfKind({"Page", "Sep", "Processing"}) = {}
    /\ NullBuffer =>
         /\ pc \in {"raised", "done"}
         /\ err.type = "ValueError"
         /\ Count("detect_blur") = 0
         /\ LinesOfKind({"Image", "Status", "Score"}) = {}
    /\ (image.kind = "ndarray" /\ pc \in {"returned", "done"}) =>
         /\ err = NoErr
         /\ Count("detect_blur") = 1
         /\ Len(out) = 3
         /\ out[1] = [kind |-> "Image", path |-> file_path]
         /\ out[2].kind = "Status"
         /\ out[3].kind = "Score"

C7_Witness ==
  /\ ~PdfRun
  /\ ~is_url(file_path)
  /\ image = NoneVal
  /\ pc = "done"
  /\ err.type = "ValueError"
  /\ out = <<[kind |-> "Error", msg |-> err.msg]>>

\* What holds in every state of a run of the main program: an error, once
\* raised, is the error the top level prints; a run that failed has printed,
\* when it is over, exactly one Error line, the last line of its output; a
\* run that did not fail prints none; a run that is over takes no step.
C8_Safety ==
  /\ pc = "raised" => (err # NoErr /\ LinesOfKind({"Error"}) = {})
  /\ err = NoErr => (pc # "raised" /\ LinesOfKind({"Error"}) = {})
  /\ (pc = "done" /\ err # NoErr) =>
       /\ LinesOfKind({"Error"}) = {Len(out)}
       /\ out[Len(out)] = [kind |-> "Error", msg |-> err.msg]
  /\ pc = "done" => ~ENABLED Next

\* C8: an error raised inside process_file reaches the top level unchanged,
\* every run of the main program ends, and a run that failed prints exactly
\* one Error line, as its last output.
C8_ErrorsReachTopLevel ==
  /\ []C8_Safety
  /\ [][err # NoErr => err' = err]_vars
  /\ <>(pc = "done")

C8_Witness ==
  /\ pc = "done"
  /\ err # NoErr
  /\ exc = NoErr
  /\ Len(out) > 1
  /\ out[Len(out)] = [kind |-> "Error", msg |-> err.msg]

\* Every pixel of the buffer has the same value.
Solid(img) == \A p, q \in DOMAIN img.px : img.px[p] = img.px[q]

\* C9: a solid-colour buffer of any size and colour, array or PIL image,
\* scores exactly 0 and is blurry under every threshold above 0.
C9_SolidScoresZero ==
  (pc = "blur_done" /\ Solid(image)) =>
    /\ results[1].ok
    /\ results[1].blur_score.num = 0
    /\ results[1].blur_score.den > 0
    /\ threshold > 0 => results[1].is_blurry

C9_Witness ==
  /\ pc = "blur_done"
  /\ Solid(image)
  /\ image.kind = "PIL"
  /\ image.h = 3
  /\ image.w = 2
  /\ image.px[<<1, 1>>] = Teal
  /\ threshold = 1
  /\ results[1].is_blurry

\* The library calls of a run, without the scorer's.
Pipeline == SelectSeq(calls, LAMBDA c : c # "detect_blur")

IsPrefix(s, t) == Len(s) <= Len(t) /\ s = SubSeq(t, 1, Len(s))

ExpectedPipeline ==
  IF SuffixPdf(file_path)
  THEN IF is_url(file_path)
       THEN <<"process_pdf", "download_file", "requests.get", "convert_from_bytes">>
       ELSE <<"process_pdf", "convert_from_path">>
  ELSE IF is_url(file_path)
       THEN <<"download_image", "requests.get", "cv2.imdecode">>
       ELSE <<"cv2.imread">>

\* C10: the calls of a run are those of the one pipeline its input selects,
\* the ".pdf" suffix (in any case) tested first and then the URL test; an
\* input is a URL only with a scheme and a host; a non-URL input makes no
\* HTTP request and a URL input reads no local file.
C10_PipelineBySyntax ==
  /\ IsPrefix(Pipeline, ExpectedPipeline)
  /\ (pc = "done" /\ err = NoErr) => Pipeline = ExpectedPipeline
  /\ is_url(file_path) => SchemeAndHost(file_path)
  /\ ~is_url(file_path) => ~Called("requests.get")
  /\ is_url(file_path) => (~Called("convert_from_path") /\ ~Called("cv2.imread"))

C10_Witness ==
  /\ pc = "done"
  /\ err = NoErr
  /\ endswith(file_path, <<".", "P", "D", "F">>)
  /\ is_url(file_path)
  /\ Pipeline = <<"process_pdf", "download_file", "requests.get", "convert_from_bytes">>
  /\ Len(images) > 0

====
